---- MODULE Spec2Model ----
\* Model of the dogfinder router (app/routers/dogfinder.py): the filter builder,
\* the two search endpoints with the shared query_vector_db path, and the
\* endpoints that change or inspect the vector store.
EXTENDS Integers, Sequences, FiniteSets, TLC

VARIABLES
    store,        \* the "Dog" class of the vector store: dogId -> document
    nextId,       \* next dog id the repository hands out
    matchedDone,  \* dog ids for which a doc_matched call has returned
    reqs,         \* per request slot: the state of one search request
    adminResp,    \* what the transport got from the last call of another endpoint
    handles       \* the module-level handles (lines 35-38)

vars == <<store, nextId, matchedDone, reqs, adminResp, handles>>

\* ---------------------------------------------------------------- bounds
MaxDogs == 2

\* ------------------------------------------------- Python values, tagged
\* A Python value is a pair <<type, payload>>, so that None, a bool, a str and
\* an enum member are distinct values that can be compared with each other.
PyNone == <<"NoneType", "None">>
PyStr(s) == <<"str", s>>
PyBool(b) == <<"bool", b>>

\* class DogType(str, Enum) and class DogSex(str, Enum): the members.
DogTypeFOUND == <<"DogType", "FOUND">>
DogTypeLOST == <<"DogType", "LOST">>
DogSexMALE == <<"DogSex", "MALE">>
DogSexFEMALE == <<"DogSex", "FEMALE">>
\* The size and color members of the search request (their .value is read).
DogSizeSMALL == <<"DogSize", "SMALL">>
DogColorBROWN == <<"DogColor", "BROWN">>

\* member.value of the enums of dog_dto.py
EnumValue(m) ==
    CASE m = DogTypeFOUND -> PyStr("found")
      [] m = DogTypeLOST -> PyStr("lost")
      [] m = DogSexMALE -> PyStr("male")
      [] m = DogSexFEMALE -> PyStr("female")

\* member.value of the size and color enums of the request view model
ViewModelEnumValue(m) ==
    CASE m = DogSizeSMALL -> PyStr("small")
      [] m = DogColorBROWN -> PyStr("brown")

\* ------------------------------------------------------- search requests
\* The eight optional attributes build_filter looks at, in the order of its
\* if-statements.
Attributes ==
    <<"type", "breed", "sex", "size", "color", "chipNumber", "name", "location">>

AttributeSet == {Attributes[i] : i \in 1..Len(Attributes)}

TypeValues == {PyNone, DogTypeFOUND, DogTypeLOST}
BreedValues == {PyNone, PyStr("labrador"), PyStr("poodle")}
SexValues == {PyNone, DogSexMALE, DogSexFEMALE}
SizeValues == {PyNone, DogSizeSMALL}
ColorValues == {PyNone, DogColorBROWN}
ChipValues == {PyNone, PyStr("chip-985")}
NameValues == {PyNone, PyStr("rex")}
LocationValues == {PyNone, PyStr("haifa")}
VerifiedValues == {PyNone, PyBool(FALSE), PyBool(TRUE)}

\* Image payloads a caller may send: two well-formed images in formats other
\* than the stored one, and one that cannot be decoded.
Payloads == {"jpeg:A", "png:B", "corrupt"}

RETURN_PROPERTIES == <<"dogId", "type", "breed">>

\* Every request over the value sets above (input of the filter builder).
AllRequests ==
    [type : TypeValues, breed : BreedValues, sex : SexValues, size : SizeValues,
     color : ColorValues, chipNumber : ChipValues, name : NameValues,
     location : LocationValues, isVerified : VerifiedValues,
     top : {10}, base64Image : {"jpeg:A"},
     return_properties : {RETURN_PROPERTIES}]

\* ------------------------------------------------------ predicates, filter
FilterValueTypes == {"valueText", "valueBoolean"}

\* Predicate(path, operator, value, valueType)
Predicate(path, operator, value, valueType) ==
    [path |-> path, operator |-> operator, value |-> value, valueType |-> valueType]

\* and_(*predicates): an And node over the operands, in the order given.
and_(predicates) == [operator |-> "And", operands |-> predicates]

\* The None that build_filter returns when it has no predicate.
NoFilter == [operator |-> "None", operands |-> <<>>]

\* Predicate.to_dict(): {path, operator, value<Kind>: value}
PredicateToDict(p) ==
    IF p.valueType = "valueBoolean"
    THEN [path |-> p.path, operator |-> p.operator, valueBoolean |-> p.value[2]]
    ELSE [path |-> p.path, operator |-> p.operator, valueText |-> p.value[2]]

\* Filter.to_dict(): {operator, operands: [operand.to_dict(), ...]}
FilterToDict(f) ==
    [operator |-> f.operator,
     operands |-> [i \in 1..Len(f.operands) |-> PredicateToDict(f.operands[i])]]

\* The value build_filter puts in the predicate of attribute a.
AttributeValue(req, a) ==
    CASE a = "type" -> EnumValue(req.type)
      [] a = "sex" -> EnumValue(req.sex)
      [] a = "size" -> ViewModelEnumValue(req.size)
      [] a = "color" -> ViewModelEnumValue(req.color)
      [] OTHER -> req[a]

\* One if-statement of build_filter: the predicates it appends.
AttributePredicates(req, a) ==
    IF req[a] # PyNone
    THEN <<Predicate(<<a>>, "Equal", AttributeValue(req, a), "valueText")>>
    ELSE <<>>

\* predicates.append(Predicate(["isMatched"], "Equal", False, valueBoolean))
IsMatchedPredicate == Predicate(<<"isMatched">>, "Equal", PyBool(FALSE), "valueBoolean")

RECURSIVE CollectPredicates(_, _)
CollectPredicates(req, i) ==
    IF i > Len(Attributes) THEN <<>>
    ELSE AttributePredicates(req, Attributes[i]) \o CollectPredicates(req, i + 1)

\* A builder that keeps a placeholder predicate for an absent attribute.
RECURSIVE CollectWithPlaceholders(_, _)
CollectWithPlaceholders(req, i) ==
    IF i > Len(Attributes) THEN <<>>
    ELSE (IF req[Attributes[i]] # PyNone
          THEN AttributePredicates(req, Attributes[i])
          ELSE <<Predicate(<<Attributes[i]>>, "Equal", PyNone, "valueText")>>)
         \o CollectWithPlaceholders(req, i + 1)

build_filter_placeholders(req) ==
    and_(CollectWithPlaceholders(req, 1) \o <<IsMatchedPredicate>>)

\* A builder whose isMatched predicate follows the caller's isVerified field.
build_filter_overridable(req) ==
    LET predicates ==
          CollectPredicates(req, 1)
          \o (IF req.isVerified # PyNone
              THEN <<Predicate(<<"isMatched">>, "Equal", req.isVerified, "valueBoolean")>>
              ELSE <<>>)
    IN  IF Len(predicates) > 0 THEN and_(predicates) ELSE NoFilter

\* A builder that forgets the isMatched predicate.
build_filter_no_isMatched(req) == and_(CollectPredicates(req, 1))

\* A builder with the isVerified predicate enabled.
build_filter_with_isVerified(req) ==
    and_(CollectPredicates(req, 1)
         \o (IF req.isVerified # PyNone
             THEN <<Predicate(<<"isVerified">>, "Equal", req.isVerified, "valueBoolean")>>
             ELSE <<>>)
         \o <<IsMatchedPredicate>>)

\* A builder that appends the isMatched predicate before the attributes.
build_filter_isMatched_first(req) ==
    and_(<<IsMatchedPredicate>> \o CollectPredicates(req, 1))

\* build_filter(dogSearchRequest)
build_filter(req) ==
    LET predicates == CollectPredicates(req, 1) \o <<IsMatchedPredicate>>
    IN  IF Len(predicates) > 0 THEN and_(predicates) ELSE NoFilter

\* ------------------------------------------------------------ vector store
DogIds == 1..MaxDogs

\* A slot of the store that holds no document.
NoDoc == [present |-> FALSE, type |-> PyNone, isMatched |-> PyBool(FALSE),
          isVerified |-> PyBool(FALSE), name |-> PyNone, chipNumber |-> PyNone,
          breed |-> PyNone, color |-> PyNone, size |-> PyNone, sex |-> PyNone,
          location |-> PyNone]

\* DogDTO.to_vectordb_json() of a new dog: isMatched and isVerified at their
\* defaults (False), the attributes as given.
to_vectordb_json(dto) ==
    [present |-> TRUE, type |-> dto.type, isMatched |-> PyBool(FALSE),
     isVerified |-> PyBool(FALSE), name |-> dto.name, chipNumber |-> dto.chipNumber,
     breed |-> dto.breed, color |-> dto.color, size |-> dto.size, sex |-> dto.sex,
     location |-> dto.location]

\* The dogs add_document is called with: lost or found labradors.
AddRequests ==
    [type : {PyStr("found"), PyStr("lost")}, breed : {PyStr("labrador")},
     name : {PyNone}, chipNumber : {PyNone}, color : {PyNone}, size : {PyNone},
     sex : {PyNone}, location : {PyNone}]

\* One serialized Equal leaf holds of a document.
LeafHolds(doc, leaf) ==
    LET v == IF "valueBoolean" \in DOMAIN leaf
             THEN PyBool(leaf.valueBoolean) ELSE PyStr(leaf.valueText)
    IN  leaf.operator = "Equal" /\ doc[leaf.path[1]] = v

\* The store applies the serialized And filter it is given.
FilterHolds(doc, filter) ==
    \A i \in 1..Len(filter.operands) : LeafHolds(doc, filter.operands[i])

\* What the store returns for a document.
ResultOf(st, d) == [dogId |-> d, type |-> st[d].type[2]]

\* All orderings of a finite set, as sequences.
RECURSIVE Orderings(_)
Orderings(S) ==
    IF S = {} THEN {<<>>}
    ELSE UNION {{<<x>> \o t : t \in Orderings(S \ {x})} : x \in S}

Prefix(s, n) == IF Len(s) <= n THEN s ELSE SubSeq(s, 1, n)

\* vecotrDBClient.query(...): the documents the filter holds of, ranked by the
\* store (any order), cut to the limit.
StoreQuery(st, call) ==
    LET hits == {d \in DogIds : st[d].present /\ FilterHolds(st[d], call.filter)}
    IN  {Prefix([i \in 1..Len(o) |-> ResultOf(st, o[i])], call.limit) : o \in Orderings(hits)}

\* -------------------------------------------------- collaborators (images)
\* resize_image_and_convert_to_format(img, (1024, 1024)): the image converted to
\* webp; fails on a payload that is no image.
Decodable(img) == img # "corrupt"

Resize(img) ==
    CASE img = "jpeg:A" -> "webp:A"
      [] img = "png:B" -> "webp:B"
      [] OTHER -> img

\* embed_query(create_pil_images([img])[0], embedding_model)
Embed(img) ==
    CASE img = "webp:A" -> "vec:A"
      [] img = "webp:B" -> "vec:B"
      [] OTHER -> "vec:0"

\* ------------------------------------------------------- request slots
\* Requests the callers of the two search endpoints send: one with nothing
\* set, one for lost labradors asking for a single result, one with every
\* attribute set, and one whose image cannot be decoded.
BareRequest ==
    [type |-> PyNone, breed |-> PyNone, sex |-> PyNone, size |-> PyNone,
     color |-> PyNone, chipNumber |-> PyNone, name |-> PyNone, location |-> PyNone,
     isVerified |-> PyNone, top |-> 10, base64Image |-> "jpeg:A",
     return_properties |-> RETURN_PROPERTIES]

ClientRequests ==
    { BareRequest,
      [BareRequest EXCEPT !.type = DogTypeLOST, !.breed = PyStr("labrador"),
                          !.isVerified = PyBool(FALSE), !.top = 1,
                          !.base64Image = "png:B"],
      [BareRequest EXCEPT !.type = DogTypeFOUND, !.breed = PyStr("poodle"),
                          !.sex = DogSexMALE, !.size = DogSizeSMALL,
                          !.color = DogColorBROWN, !.chipNumber = PyStr("chip-985"),
                          !.name = PyStr("rex"), !.location = PyStr("haifa"),
                          !.isVerified = PyBool(TRUE), !.return_properties = <<"dogId">>],
      [BareRequest EXCEPT !.type = DogTypeFOUND, !.base64Image = "corrupt"] }

Endpoints == {"search_in_found_dogs", "search_in_lost_dogs"}

NoRequest ==
    [type |-> PyNone, breed |-> PyNone, sex |-> PyNone, size |-> PyNone,
     color |-> PyNone, chipNumber |-> PyNone, name |-> PyNone, location |-> PyNone,
     isVerified |-> PyNone, top |-> 0, base64Image |-> "", return_properties |-> <<>>]

NoCall ==
    [class_name |-> "", query_embedding |-> "", limit |-> 0, offset |-> PyNone,
     filter |-> [operator |-> "None", operands |-> <<>>], properties |-> <<>>]

NoResponse == [kind |-> "none", status_code |-> 0, total |-> 0, results |-> <<>>]

\* A slot in which no request is being handled.
IdleSlot ==
    [pc |-> "idle", endpoint |-> "none", entry |-> NoRequest, req |-> NoRequest,
     converted |-> "", embedding |-> "", filter |-> NoFilter, call |-> NoCall,
     called |-> 0, returned |-> <<>>, fault |-> "none", response |-> NoResponse,
     matchedAtStart |-> {}, log |-> <<>>, responses |-> 0]

Slots == DOMAIN reqs

\* The module-level handles as the module leaves them (lines 35-38) and as
\* startup_event assigns them (lines 160-185).
NoHandles ==
    [vecotrDBClient |-> "unbound", embedding_model |-> "None",
     dogWithImagesRepository |-> "None", dogWithImagesService |-> "None"]

StartedHandles ==
    [vecotrDBClient |-> "WeaviateVectorDBClient", embedding_model |-> "embedding_model",
     dogWithImagesRepository |-> "DogWithImagesRepository",
     dogWithImagesService |-> "DogWithImagesService"]

\* Requests are served once the startup event has run.
Started == handles # NoHandles

\* startup_event (lines 149-185): the only assignment of the handles.
StartupEvent ==
    /\ handles = NoHandles
    /\ handles' = StartedHandles
    /\ UNCHANGED <<store, nextId, matchedDone, reqs, adminResp>>

\* The type each endpoint forces (lines 219 and 241).
ForcedType(endpoint) ==
    IF endpoint = "search_in_found_dogs" THEN DogTypeFOUND ELSE DogTypeLOST

\* A normalisation that keeps a type the caller supplied.
NormalizeRequest_keepsType(endpoint, req, converted) ==
    [req EXCEPT !.type = IF @ = PyNone THEN ForcedType(endpoint) ELSE @,
                !.base64Image = converted,
                !.isVerified = PyBool(TRUE)]

\* A normalisation that also resets the result cap to its default.
NormalizeRequest_resetsTop(endpoint, req, converted) ==
    [req EXCEPT !.type = ForcedType(endpoint),
                !.base64Image = converted,
                !.isVerified = PyBool(TRUE),
                !.top = 10]

\* dogSearchRequest.type = ...; .base64Image = base64Images[0]; .isVerified = True
NormalizeRequest(endpoint, req, converted) ==
    [req EXCEPT !.type = ForcedType(endpoint),
                !.base64Image = converted,
                !.isVerified = PyBool(TRUE)]

\* A query that passes the default cap and a zero offset.
QueryArgs_defaults(req, embedding, filter) ==
    [class_name |-> "Dog", query_embedding |-> embedding, limit |-> 10,
     offset |-> <<"int", 0>>, filter |-> FilterToDict(filter),
     properties |-> req.return_properties]

\* The arguments of vecotrDBClient.query in query_vector_db (line 522).
QueryArgs(req, embedding, filter) ==
    [class_name |-> "Dog", query_embedding |-> embedding, limit |-> req.top,
     offset |-> PyNone, filter |-> FilterToDict(filter),
     properties |-> req.return_properties]

\* A success response that re-sorts the results by dog id.
RECURSIVE SortByDogId(_)
SortByDogId(results) ==
    IF results = <<>> THEN <<>>
    ELSE LET least == CHOOSE i \in 1..Len(results) :
                        \A j \in 1..Len(results) : results[i].dogId <= results[j].dogId
         IN  <<results[least]>>
             \o SortByDogId([k \in 1..(Len(results) - 1) |->
                               IF k < least THEN results[k] ELSE results[k + 1]])

SuccessResponse_sorted(results) ==
    [kind |-> "envelope", status_code |-> 200, total |-> Len(results),
     results |-> SortByDogId(results)]

\* APIResponse(status_code=200, ..., data={total: len(results), results: results})
SuccessResponse(results) ==
    [kind |-> "envelope", status_code |-> 200, total |-> Len(results), results |-> results]

\* A failure response whose status depends on what failed.
FailureResponse_byKind(fault) ==
    [kind |-> "envelope",
     status_code |-> IF fault \in {"ImageDecode", "Filter"} THEN 400 ELSE 500,
     total |-> 0, results |-> <<>>]

\* except Exception: APIResponse(status_code=500, ..., data={total: 0, results: []})
FailureResponse(fault) ==
    [kind |-> "envelope", status_code |-> 500, total |-> 0, results |-> <<>>]

\* A request arrives at one of the two search endpoints.
Receive(r) ==
    /\ Started
    /\ reqs[r].pc \in {"idle", "responded"}
    /\ \E e \in Endpoints, q \in ClientRequests :
         reqs' = [reqs EXCEPT ![r] =
                    [IdleSlot EXCEPT !.pc = "received", !.endpoint = e, !.entry = q,
                                     !.req = q, !.matchedAtStart = matchedDone]]
    /\ UNCHANGED <<store, nextId, matchedDone, adminResp, handles>>

\* A decoding step that records the failure and lets the request go on with
\* the payload it was given.
HandleUploadedImages_lenient(r) ==
    /\ reqs[r].pc = "received"
    /\ reqs' = [reqs EXCEPT ![r] =
         IF Decodable(reqs[r].req.base64Image)
         THEN [@ EXCEPT !.pc = "decoded", !.log = Append(@, "decode"),
                        !.converted = Resize(reqs[r].req.base64Image)]
         ELSE [@ EXCEPT !.pc = "decoded", !.log = Append(@, "decode"),
                        !.converted = reqs[r].req.base64Image,
                        !.fault = "ImageDecode"]]
    /\ UNCHANGED <<store, nextId, matchedDone, adminResp, handles>>

\* handle_uploaded_images([dogSearchRequest.base64Image]) (lines 216, 526-555)
HandleUploadedImages(r) ==
    /\ reqs[r].pc = "received"
    /\ reqs' = [reqs EXCEPT ![r] =
         IF Decodable(reqs[r].req.base64Image)
         THEN [@ EXCEPT !.pc = "decoded", !.log = Append(@, "decode"),
                        !.converted = Resize(reqs[r].req.base64Image)]
         ELSE [@ EXCEPT !.pc = "raised", !.log = Append(@, "decode"),
                        !.fault = "ImageDecode"]]
    /\ UNCHANGED <<store, nextId, matchedDone, adminResp, handles>>

\* The three assignments to the request (lines 219-221, 241-243).
Normalize(r) ==
    /\ reqs[r].pc = "decoded"
    /\ reqs' = [reqs EXCEPT ![r] =
         [@ EXCEPT !.pc = "normalized", !.log = Append(@, "normalize"),
                   !.req = NormalizeRequest(reqs[r].endpoint, reqs[r].req, reqs[r].converted)]]
    /\ UNCHANGED <<store, nextId, matchedDone, adminResp, handles>>

\* create_pil_images and embed_query (lines 512-515); either may raise.
EmbedQuery(r) ==
    /\ reqs[r].pc = "normalized"
    /\ \E ok \in BOOLEAN :
         reqs' = [reqs EXCEPT ![r] =
           IF ok
           THEN [@ EXCEPT !.pc = "embedded", !.log = Append(@, "embed"),
                          !.embedding = Embed(reqs[r].req.base64Image)]
           ELSE [@ EXCEPT !.pc = "raised", !.log = Append(@, "embed"),
                          !.fault = "Embedding"]]
    /\ UNCHANGED <<store, nextId, matchedDone, adminResp, handles>>

\* A filter step whose predicates list is shared by the requests: it still
\* holds the predicates another request has appended.
BuildFilter_sharedPredicates(r) ==
    /\ reqs[r].pc = "embedded"
    /\ \E o \in Slots :
         reqs' = [reqs EXCEPT ![r] =
           [@ EXCEPT !.pc = "filtered", !.log = Append(@, "filter"),
                     !.filter = and_((IF o # r THEN reqs[o].filter.operands ELSE <<>>)
                                     \o build_filter(reqs[r].req).operands)]]
    /\ UNCHANGED <<store, nextId, matchedDone, adminResp, handles>>

\* filter = build_filter(dogSearchRequest) (line 518); the Predicate and and_
\* constructors it calls may raise.
BuildFilter(r) ==
    /\ reqs[r].pc = "embedded"
    /\ \E ok \in BOOLEAN :
         reqs' = [reqs EXCEPT ![r] =
           IF ok
           THEN [@ EXCEPT !.pc = "filtered", !.log = Append(@, "filter"),
                          !.filter = build_filter(reqs[r].req)]
           ELSE [@ EXCEPT !.pc = "raised", !.log = Append(@, "filter"),
                          !.fault = "Filter"]]
    /\ UNCHANGED <<store, nextId, matchedDone, adminResp, handles>>

\* A query step that calls the store again after the store has failed.
QueryStore_retry(r) ==
    /\ \/ reqs[r].pc = "filtered"
       \/ reqs[r].pc = "raised" /\ reqs[r].fault = "VectorStore"
    /\ LET call == QueryArgs(reqs[r].req, reqs[r].embedding, reqs[r].filter)
       IN  \/ \E res \in StoreQuery(store, call) :
                reqs' = [reqs EXCEPT ![r] =
                  [@ EXCEPT !.pc = "queried", !.call = call, !.fault = "none",
                            !.log = Append(@, "query"),
                            !.called = @ + 1, !.returned = res]]
           \/ reqs' = [reqs EXCEPT ![r] =
                  [@ EXCEPT !.pc = "raised", !.call = call,
                            !.log = Append(@, "query"),
                            !.called = @ + 1, !.fault = "VectorStore"]]
    /\ UNCHANGED <<store, nextId, matchedDone, adminResp, handles>>

\* vecotrDBClient.query(..., filter=filter.to_dict(), ...) (line 522): None has
\* no to_dict, the store may fail, otherwise it returns its ranked list.
QueryStore(r) ==
    /\ reqs[r].pc = "filtered"
    /\ IF reqs[r].filter = NoFilter
       THEN reqs' = [reqs EXCEPT ![r] = [@ EXCEPT !.pc = "raised", !.fault = "Filter"]]
       ELSE LET call == QueryArgs(reqs[r].req, reqs[r].embedding, reqs[r].filter)
            IN  \/ \E res \in StoreQuery(store, call) :
                     reqs' = [reqs EXCEPT ![r] =
                       [@ EXCEPT !.pc = "queried", !.call = call,
                                 !.log = Append(@, "query"),
                                 !.called = @ + 1, !.returned = res]]
                \/ reqs' = [reqs EXCEPT ![r] =
                       [@ EXCEPT !.pc = "raised", !.call = call,
                                 !.log = Append(@, "query"),
                                 !.called = @ + 1, !.fault = "VectorStore"]]
    /\ UNCHANGED <<store, nextId, matchedDone, adminResp, handles>>

\* A handler whose except clause misses a failure of the store.
SearchResponse_uncaught(slot) ==
    IF slot.pc = "queried" THEN SuccessResponse(slot.returned)
    ELSE IF slot.fault = "VectorStore"
         THEN [kind |-> "unhandled", status_code |-> 0, total |-> 0, results |-> <<>>]
         ELSE FailureResponse(slot.fault)

\* The response of the handler: the try block's on success, the except
\* block's when something raised; the finally block returns it.
SearchResponse(slot) ==
    IF slot.pc = "queried" THEN SuccessResponse(slot.returned)
    ELSE FailureResponse(slot.fault)

Respond(r) ==
    /\ reqs[r].pc \in {"queried", "raised"}
    /\ reqs' = [reqs EXCEPT ![r] =
         [@ EXCEPT !.pc = "responded", !.log = Append(@, "response"),
                   !.responses = @ + 1, !.response = SearchResponse(reqs[r])]]
    /\ UNCHANGED <<store, nextId, matchedDone, adminResp, handles>>

\* ---------------------------------------------------- the other endpoints
\* What the transport layer gets from a handler: an APIResponse envelope, the
\* collaborator's raw return value, or an exception that left the handler.
Envelope(status) == [kind |-> "envelope", status_code |-> status]
RawReturn == [kind |-> "raw", status_code |-> 0]
Unhandled == [kind |-> "unhandled", status_code |-> 0]
NoAdminResp == [kind |-> "none", status_code |-> 0]

\* The repository holds a dog for every id it has handed out.
DogExists(d) == d < nextId

\* DogWithImagesService.update_dog_is_matched(dogId, True) on the store.
UpdateDogIsMatched(st, d, value) ==
    IF st[d].present THEN [st EXCEPT ![d].isMatched = PyBool(value)] ELSE st

\* add_document (lines 307-349): everything is inside try/except.
AddDocument ==
    /\ Started
    /\ \E dog \in AddRequests, ok \in BOOLEAN :
         IF ok /\ nextId <= MaxDogs
         THEN /\ store' = [store EXCEPT ![nextId] = to_vectordb_json(dog)]
              /\ nextId' = nextId + 1
              /\ adminResp' = Envelope(200)
              /\ UNCHANGED <<matchedDone, reqs, handles>>
         ELSE /\ adminResp' = Envelope(500)
              /\ UNCHANGED <<store, nextId, matchedDone, reqs, handles>>

\* doc_matched (lines 444-451): no try/except around the service call.
DocMatched ==
    /\ Started
    /\ \E d \in DogIds, ok \in BOOLEAN :
         IF ok /\ DogExists(d)
         THEN /\ store' = UpdateDogIsMatched(store, d, TRUE)
              /\ matchedDone' = matchedDone \cup {d}
              /\ adminResp' = Envelope(200)
              /\ UNCHANGED <<nextId, reqs, handles>>
         ELSE /\ adminResp' = Unhandled
              /\ UNCHANGED <<store, nextId, matchedDone, reqs, handles>>

\* clean_all (lines 428-442): the client call is outside any try; a result
\* with success False becomes a 500 envelope.
CleanAll ==
    /\ Started
    /\ \E outcome \in {"raises", "failure", "success"} :
         /\ store' = IF outcome = "success" THEN [d \in DogIds |-> NoDoc] ELSE store
         /\ adminResp' = CASE outcome = "raises" -> Unhandled
                           [] outcome = "failure" -> Envelope(500)
                           [] outcome = "success" -> Envelope(200)
         /\ UNCHANGED <<nextId, matchedDone, reqs, handles>>

\* get_schema (lines 424-426): returns what the client returns.
GetSchema ==
    /\ Started
    /\ \E ok \in BOOLEAN :
         adminResp' = IF ok THEN RawReturn ELSE Unhandled
    /\ UNCHANGED <<store, nextId, matchedDone, reqs, handles>>

\* get_dog_by_id (lines 272-287): a missing dog raises inside the try.
GetDogById ==
    /\ Started
    /\ \E d \in DogIds :
         adminResp' = IF DogExists(d) THEN Envelope(200)
                      ELSE Envelope(500)
    /\ UNCHANGED <<store, nextId, matchedDone, reqs, handles>>

\* ------------------------------------------------------- specifications
\* The module has been imported: an empty store, the handles not yet
\* assigned, no request in flight.
Init ==
    /\ store = [d \in DogIds |-> NoDoc]
    /\ nextId = 1
    /\ matchedDone = {}
    /\ reqs = [r \in {"r1"} |-> IdleSlot]
    /\ adminResp = NoAdminResp
    /\ handles = NoHandles

Next ==
    \/ StartupEvent
    \/ \E r \in Slots : Receive(r)
    \/ \E r \in Slots : HandleUploadedImages(r)
    \/ \E r \in Slots : Normalize(r)
    \/ \E r \in Slots : EmbedQuery(r)
    \/ \E r \in Slots : BuildFilter(r)
    \/ \E r \in Slots : QueryStore(r)
    \/ \E r \in Slots : Respond(r)
    \/ AddDocument
    \/ DocMatched
    \/ CleanAll
    \/ GetSchema
    \/ GetDogById

Spec == Init /\ [][Next]_vars

\* The filter builder alone, on every request of AllRequests.
InitFilter ==
    /\ store = [d \in DogIds |-> NoDoc]
    /\ nextId = 1
    /\ matchedDone = {}
    /\ \E q \in AllRequests :
         reqs = [r \in {"r1"} |-> [IdleSlot EXCEPT !.pc = "embedded", !.entry = q, !.req = q]]
    /\ adminResp = NoAdminResp
    /\ handles = StartedHandles

NextFilter == \E r \in Slots : BuildFilter(r)

SpecFilter == InitFilter /\ [][NextFilter]_vars

\* Two requests in flight at once, against a store that already holds one
\* lost labrador per dog id, the dogs of one id set being marked as matched.
ConcurrentStores ==
    {[d \in DogIds |->
        [to_vectordb_json([type |-> PyStr("lost"), breed |-> PyStr("labrador"),
                           name |-> PyNone, chipNumber |-> PyNone, color |-> PyNone,
                           size |-> PyNone, sex |-> PyNone, location |-> PyNone])
           EXCEPT !.isMatched = PyBool(d \in M)]] : M \in {{}, {1}}}

InitConcurrent ==
    /\ store \in ConcurrentStores
    /\ nextId = MaxDogs + 1
    /\ matchedDone = {d \in DogIds : store[d].isMatched = PyBool(TRUE)}
    /\ reqs = [r \in {"r1", "r2"} |-> IdleSlot]
    /\ adminResp = NoAdminResp
    /\ handles = NoHandles

NextConcurrent ==
    \/ StartupEvent
    \/ \E r \in Slots : Receive(r)
    \/ \E r \in Slots : HandleUploadedImages(r)
    \/ \E r \in Slots : Normalize(r)
    \/ \E r \in Slots : EmbedQuery(r)
    \/ \E r \in Slots : BuildFilter(r)
    \/ \E r \in Slots : QueryStore(r)
    \/ \E r \in Slots : Respond(r)

SpecConcurrent == InitConcurrent /\ [][NextConcurrent]_vars

\* ---------------------------------------------------------------- claims
\* The attributes that are not None on a request.
PresentAttributes(q) == {a \in AttributeSet : q[a] # PyNone}

\* The positions of a filter's operands whose path is <<name>>.
OperandsOn(f, name) == {i \in 1..Len(f.operands) : f.operands[i].path = <<name>>}

\* The text an Equal leaf on attribute a must carry for request q.
CarriedText(q, a) ==
    CASE q[a] = DogTypeFOUND -> "found"
      [] q[a] = DogTypeLOST -> "lost"
      [] q[a] = DogSexMALE -> "male"
      [] q[a] = DogSexFEMALE -> "female"
      [] q[a] = DogSizeSMALL -> "small"
      [] q[a] = DogColorBROWN -> "brown"
      [] OTHER -> q[a][2]

\* C1: build_filter returns an And node with exactly one Equal leaf per
\* non-null attribute, carrying its value, plus one Equal(isMatched, false)
\* leaf: k present attributes give k+1 operands and an absent attribute gives
\* no operand.
C1_OperandsPerAttribute ==
    \A r \in Slots :
      reqs[r].pc = "filtered" =>
        LET f == reqs[r].filter
            q == reqs[r].req
        IN  /\ f.operator = "And"
            /\ Len(f.operands) = Cardinality(PresentAttributes(q)) + 1
            /\ \A a \in AttributeSet :
                 IF a \in PresentAttributes(q)
                 THEN /\ Cardinality(OperandsOn(f, a)) = 1
                      /\ \A i \in OperandsOn(f, a) :
                           f.operands[i] =
                             [path |-> <<a>>, operator |-> "Equal",
                              value |-> PyStr(CarriedText(q, a)),
                              valueType |-> "valueText"]
                 ELSE OperandsOn(f, a) = {}
            /\ Cardinality(OperandsOn(f, "isMatched")) = 1
            /\ \A i \in OperandsOn(f, "isMatched") :
                 f.operands[i] =
                   [path |-> <<"isMatched">>, operator |-> "Equal",
                    value |-> PyBool(FALSE), valueType |-> "valueBoolean"]

\* A filter built for a request with exactly three attributes set, chipNumber
\* absent: four operands.
C1_Witness ==
    \E r \in Slots :
      /\ reqs[r].pc = "filtered"
      /\ PresentAttributes(reqs[r].req) = {"type", "breed", "name"}
      /\ Len(reqs[r].filter.operands) = 4

\* C2: every filter build_filter produces contains Equal(isMatched, false), and
\* no field of the request removes it or turns its value to true.
C2_IsMatchedAlways ==
    \A r \in Slots :
      reqs[r].pc = "filtered" =>
        LET f == reqs[r].filter
        IN  /\ \E i \in 1..Len(f.operands) :
                 /\ f.operands[i].path = <<"isMatched">>
                 /\ f.operands[i].operator = "Equal"
                 /\ f.operands[i].value = PyBool(FALSE)
            /\ \A i \in OperandsOn(f, "isMatched") :
                 f.operands[i].value # PyBool(TRUE)

\* A filter built for a request with every attribute set and isVerified true.
C2_Witness ==
    \E r \in Slots :
      /\ reqs[r].pc = "filtered"
      /\ PresentAttributes(reqs[r].req) = AttributeSet
      /\ reqs[r].req.isVerified = PyBool(TRUE)
      /\ OperandsOn(reqs[r].filter, "isMatched") # {}

\* The results of a slot's response, as a set of dog ids.
RespondedDogs(slot) ==
    {slot.response.results[i].dogId : i \in 1..Len(slot.response.results)}

\* C3: no search response that starts after doc_matched(dogId) has returned
\* contains a record of that dog.
C3_ResolvedExcluded ==
    \A r \in Slots :
      reqs[r].pc = "responded" =>
        RespondedDogs(reqs[r]) \cap reqs[r].matchedAtStart = {}

\* A search of lost dogs that started after a lost dog was marked as matched,
\* while its document is in the store, and that returned another dog.
C3_Witness ==
    \E r \in Slots :
      /\ reqs[r].pc = "responded"
      /\ reqs[r].endpoint = "search_in_lost_dogs"
      /\ reqs[r].response.status_code = 200
      /\ RespondedDogs(reqs[r]) # {}
      /\ \E d \in reqs[r].matchedAtStart :
           /\ store[d].present
           /\ store[d].type = PyStr("lost")
           /\ store[d].isMatched = PyBool(TRUE)

\* C4: every search response is either status 200 with the store's list and
\* its length, or status 500 with no results and total 0; a failure always
\* gives the second and never leaves the handler as an exception.
C4_TwoShapes ==
    \A r \in Slots :
      reqs[r].pc = "responded" =>
        LET resp == reqs[r].response
        IN  /\ resp.kind = "envelope"
            /\ IF reqs[r].fault = "none"
               THEN /\ resp.status_code = 200
                    /\ resp.results = reqs[r].returned
                    /\ resp.total = Len(reqs[r].returned)
               ELSE /\ resp.status_code = 500
                    /\ resp.results = <<>>
                    /\ resp.total = 0

\* The store failed during a search, and the handler has responded.
C4_Witness ==
    \E r \in Slots :
      /\ reqs[r].pc = "responded"
      /\ reqs[r].fault = "VectorStore"
      /\ reqs[r].called = 1
      /\ reqs[r].response.status_code = 500

\* C5: at every endpoint a collaborator's failure is caught and mapped to the
\* response envelope; no exception reaches the transport layer.
C5_NoUnhandledFault ==
    /\ adminResp.kind # "unhandled"
    /\ \A r \in Slots : reqs[r].response.kind # "unhandled"

\* C6 as claimed: an image-decoding or invalid-filter failure is reported with
\* a 4xx status, a store failure or an internal fault with a 5xx status.
C6_StatusByKind ==
    \A r \in Slots :
      (reqs[r].pc = "responded" /\ reqs[r].fault # "none") =>
        IF reqs[r].fault \in {"ImageDecode", "Filter"}
        THEN reqs[r].response.status_code \in 400..499
        ELSE reqs[r].response.status_code \in 500..599

\* C6 as amended: a failed search is reported with status 500 whatever failed,
\* an undecodable image included.
C6_FailureIs500 ==
    \A r \in Slots :
      \A kind \in {"ImageDecode", "Embedding", "Filter", "VectorStore"} :
        (reqs[r].pc = "responded" /\ reqs[r].fault = kind) =>
          reqs[r].response.status_code = 500

\* A search whose image could not be decoded has been answered.
C6_Witness ==
    \E r \in Slots :
      /\ reqs[r].pc = "responded"
      /\ reqs[r].fault = "ImageDecode"
      /\ reqs[r].entry.base64Image = "corrupt"
      /\ reqs[r].response.kind = "envelope"

\* The handler has passed its three assignments and called query_vector_db.
Delegated(slot) ==
    /\ slot.pc \notin {"idle", "received", "decoded"}
    /\ slot.fault # "ImageDecode"

\* The serialized Equal leaf on the record type.
TypeLeaf(text) == [path |-> <<"type">>, operator |-> "Equal", valueText |-> text]

\* C7: whatever type and isVerified the caller sent, search_in_found_dogs
\* delegates with type = found and isVerified = true, search_in_lost_dogs with
\* type = lost and isVerified = true, and the filter sent to the store holds
\* Equal(type, "found") resp. Equal(type, "lost").
C7_ForcedTypeAndVerified ==
    \A r \in Slots :
      LET slot == reqs[r]
          found == slot.endpoint = "search_in_found_dogs"
      IN  /\ Delegated(slot) =>
               /\ slot.req.type = IF found THEN DogTypeFOUND ELSE DogTypeLOST
               /\ slot.req.isVerified = PyBool(TRUE)
          /\ slot.called > 0 =>
               /\ \E i \in 1..Len(slot.call.filter.operands) :
                    slot.call.filter.operands[i] =
                      TypeLeaf(IF found THEN "found" ELSE "lost")
               /\ \A i \in 1..Len(slot.call.filter.operands) :
                    slot.call.filter.operands[i] #
                      TypeLeaf(IF found THEN "lost" ELSE "found")

\* A caller asked search_in_found_dogs for lost, unverified dogs, and the
\* store has been queried.
C7_Witness ==
    \E r \in Slots :
      /\ reqs[r].endpoint = "search_in_found_dogs"
      /\ reqs[r].entry.type = DogTypeLOST
      /\ reqs[r].entry.isVerified = PyBool(FALSE)
      /\ reqs[r].called = 1
      /\ reqs[r].pc = "queried"

\* C8: on success the results of the response are the sequence the store
\* returned: same elements, same order, same length.
C8_ResultsUnmodified ==
    \A r \in Slots :
      (reqs[r].pc = "responded" /\ reqs[r].response.status_code = 200) =>
        /\ Len(reqs[r].response.results) = Len(reqs[r].returned)
        /\ \A i \in 1..Len(reqs[r].returned) :
             reqs[r].response.results[i] = reqs[r].returned[i]

\* The store returned two dogs, the higher id first, and the handler answered.
C8_Witness ==
    \E r \in Slots :
      /\ reqs[r].pc = "responded"
      /\ reqs[r].response.status_code = 200
      /\ Len(reqs[r].returned) = 2
      /\ reqs[r].returned[1].dogId > reqs[r].returned[2].dogId

RequestFields == DOMAIN NoRequest

\* C9 as claimed: handling a search writes only type and isVerified; every
\* other field of the request, the image payload included, keeps its value.
C9_OnlyTypeAndVerifiedWritten ==
    \A r \in Slots :
      \A f \in RequestFields \ {"type", "isVerified"} :
        reqs[r].req[f] = reqs[r].entry[f]

\* C9 as amended: the fields written are type, isVerified and base64Image (set
\* to the converted image); every other field keeps its value through all the
\* steps, build_filter included, and nothing is written before the image has
\* been converted.
C9_FrameOfRequest ==
    \A r \in Slots :
      LET slot == reqs[r]
      IN  /\ \A f \in RequestFields \ {"type", "isVerified", "base64Image"} :
               slot.req[f] = slot.entry[f]
          /\ ~Delegated(slot) => slot.req = slot.entry
          /\ Delegated(slot) =>
               slot.req =
                 [slot.entry EXCEPT
                    !.type = IF slot.endpoint = "search_in_found_dogs"
                             THEN DogTypeFOUND ELSE DogTypeLOST,
                    !.isVerified = PyBool(TRUE),
                    !.base64Image = slot.converted]

\* A request for one labrador has been answered, its image payload replaced
\* by the converted image.
C9_Witness ==
    \E r \in Slots :
      /\ reqs[r].pc = "responded"
      /\ reqs[r].fault = "none"
      /\ reqs[r].entry.top = 1
      /\ reqs[r].entry.breed # PyNone
      /\ reqs[r].req.base64Image # reqs[r].entry.base64Image

\* C10: the store's query is invoked with this request's embedding, the
\* serialized filter build_filter returned for it, limit = top, no offset and
\* the request's return-property list.
C10_QueryArguments ==
    \A r \in Slots :
      reqs[r].called > 0 =>
        LET slot == reqs[r]
        IN  /\ slot.call.class_name = "Dog"
            /\ slot.call.query_embedding = slot.embedding
            /\ slot.embedding =
                 (IF slot.entry.base64Image = "jpeg:A" THEN "vec:A" ELSE "vec:B")
            /\ slot.call.filter.operator = slot.filter.operator
            /\ Len(slot.call.filter.operands) = Len(slot.filter.operands)
            /\ \A i \in 1..Len(slot.filter.operands) :
                 LET p == slot.filter.operands[i]
                     leaf == slot.call.filter.operands[i]
                 IN  /\ leaf.path = p.path
                     /\ leaf.operator = p.operator
                     /\ DOMAIN leaf = {"path", "operator", p.valueType}
                     /\ leaf[p.valueType] = p.value[2]
            /\ slot.call.limit = slot.entry.top
            /\ slot.call.offset = PyNone
            /\ slot.call.properties = slot.entry.return_properties

\* The store was queried for a request with top = 1 and for one with its own
\* property list.
C10_Witness ==
    \E r \in Slots :
      /\ reqs[r].called = 1
      /\ reqs[r].entry.top = 1
      /\ reqs[r].call.limit = 1
      /\ reqs[r].call.query_embedding = "vec:B"

\* C11: the store's query is invoked at most once per request; when that call
\* fails the request ends with an error response and no second call is made.
C11_AtMostOneQuery ==
    \A r \in Slots :
      LET slot == reqs[r]
      IN  /\ slot.called <= 1
          /\ slot.called = 1 <=> (slot.pc = "queried" \/ slot.fault = "VectorStore"
                                  \/ (slot.pc = "responded" /\ slot.fault = "none"))
          /\ slot.fault = "VectorStore" =>
               /\ slot.pc \in {"raised", "responded"}
               /\ slot.returned = <<>>
               /\ slot.pc = "responded" =>
                    /\ slot.response.status_code = 500
                    /\ slot.response.results = <<>>

\* The one query of a request failed while the store held a document, and
\* the request has been answered with the error response.
C11_Witness ==
    \E r \in Slots :
      /\ reqs[r].pc = "responded"
      /\ reqs[r].fault = "VectorStore"
      /\ reqs[r].called = 1
      /\ reqs[r].response.total = 0
      /\ \E d \in DogIds : store[d].present

\* The filter a request gets when it is the only request.
AloneFilter(endpoint, q) ==
    build_filter(NormalizeRequest(endpoint, q, Resize(q.base64Image)))

\* The (filter, response) pairs a request can end with when it runs alone
\* against the store contents st.
AloneOutcomes(endpoint, q, st) ==
    IF ~Decodable(q.base64Image)
    THEN {[filter |-> NoFilter, response |-> FailureResponse("ImageDecode")]}
    ELSE LET n == NormalizeRequest(endpoint, q, Resize(q.base64Image))
             f == build_filter(n)
             call == QueryArgs(n, Embed(n.base64Image), f)
         IN  {[filter |-> NoFilter, response |-> FailureResponse("Embedding")],
              [filter |-> f, response |-> FailureResponse("VectorStore")]}
             \cup {[filter |-> f, response |-> SuccessResponse(res)] :
                     res \in StoreQuery(st, call)}

\* C12: under any interleaving of concurrent search requests after startup,
\* each request's filter and response are those it would get alone against the
\* same store contents; no search handler writes the module-level handles and
\* no request reads or writes another request's filter.
C12_RequestsIsolated ==
    /\ (\E r \in Slots : reqs[r].pc # "idle") => handles = StartedHandles
    /\ \A r \in Slots :
         LET slot == reqs[r]
         IN  /\ slot.pc \in {"filtered", "queried"} =>
                  slot.filter = AloneFilter(slot.endpoint, slot.entry)
             /\ slot.pc \in {"received", "decoded", "normalized", "embedded"} =>
                  slot.filter = NoFilter
             /\ slot.pc = "responded" =>
                  [filter |-> slot.filter, response |-> slot.response]
                    \in AloneOutcomes(slot.endpoint, slot.entry, store)

\* Two requests are in flight with different filters: one has its results,
\* the other has built its filter and not yet queried.
C12_Witness ==
    /\ DOMAIN reqs = {"r1", "r2"}
    /\ reqs["r1"].pc = "queried"
    /\ reqs["r1"].returned # <<>>
    /\ reqs["r2"].pc = "filtered"
    /\ reqs["r2"].filter # reqs["r1"].filter
    /\ reqs["r2"].endpoint # reqs["r1"].endpoint

\* A stored document with its isVerified property set to b.
WithVerified(doc, b) == [doc EXCEPT !.isVerified = PyBool(b)]

\* C13: the isVerified field of a request has no influence on the filter: the
\* requests that differ from it only in isVerified get the same filter, which
\* has no operand on isVerified, so a document passes the filter whether or not
\* it is verified.
C13_IsVerifiedIgnored ==
    \A r \in Slots :
      reqs[r].pc = "filtered" =>
        LET f == reqs[r].filter
            q == reqs[r].req
        IN  /\ \A v \in VerifiedValues : build_filter([q EXCEPT !.isVerified = v]) = f
            /\ OperandsOn(f, "isVerified") = {}
            /\ \A dto \in AddRequests : \A b \in BOOLEAN :
                 FilterHolds(WithVerified(to_vectordb_json(dto), b), FilterToDict(f))
                   <=> FilterHolds(to_vectordb_json(dto), FilterToDict(f))

\* A filter built for a lost-dog request with isVerified true, which an
\* unverified lost labrador passes.
C13_Witness ==
    \E r \in Slots :
      /\ reqs[r].pc = "filtered"
      /\ reqs[r].req.isVerified = PyBool(TRUE)
      /\ reqs[r].req.type = DogTypeLOST
      /\ \E dto \in AddRequests :
           /\ to_vectordb_json(dto).isVerified = PyBool(FALSE)
           /\ FilterHolds(to_vectordb_json(dto), FilterToDict(reqs[r].filter))

\* The place of an operand's path in the order of build_filter's statements.
OperandRank(path) ==
    CASE path = <<"type">> -> 1
      [] path = <<"breed">> -> 2
      [] path = <<"sex">> -> 3
      [] path = <<"size">> -> 4
      [] path = <<"color">> -> 5
      [] path = <<"chipNumber">> -> 6
      [] path = <<"name">> -> 7
      [] path = <<"location">> -> 8
      [] path = <<"isMatched">> -> 9
      [] OTHER -> 0

\* C14: the operands of the And node appear in the order type, breed, sex,
\* size, color, chipNumber, name, location, isMatched (present attributes
\* only), whatever the values are, and the isMatched predicate is the last one.
C14_OperandOrder ==
    \A r \in Slots :
      reqs[r].pc = "filtered" =>
        LET ops == reqs[r].filter.operands
            q == reqs[r].req
        IN  /\ Len(ops) >= 1
            /\ ops[Len(ops)].path = <<"isMatched">>
            /\ \A i \in 1..Len(ops) : OperandRank(ops[i].path) >= 1
            /\ \A i \in 1..Len(ops) : \A j \in 1..Len(ops) :
                 i < j => OperandRank(ops[i].path) < OperandRank(ops[j].path)
            /\ {ops[i].path : i \in 1..Len(ops)}
                 = {<<a>> : a \in PresentAttributes(q)} \cup {<<"isMatched">>}

\* A filter built for a request with type, color and location only: its
\* operands are on type, color, location, isMatched, in that order.
C14_Witness ==
    \E r \in Slots :
      /\ reqs[r].pc = "filtered"
      /\ PresentAttributes(reqs[r].req) = {"type", "color", "location"}
      /\ [i \in 1..Len(reqs[r].filter.operands) |-> reqs[r].filter.operands[i].path]
           = << <<"type">>, <<"color">>, <<"location">>, <<"isMatched">> >>

\* The steps of a search request before its response, in the order of the
\* handler's statements.
Pipeline == <<"decode", "normalize", "embed", "filter", "query">>

\* The steps a slot has taken, its response left out.
StepsBeforeResponse(slot) ==
    IF slot.responses > 0 THEN Prefix(slot.log, Len(slot.log) - 1) ELSE slot.log

\* Some step of request r can be taken.
CanStep(r) ==
    ENABLED (\/ HandleUploadedImages(r) \/ Normalize(r) \/ EmbedQuery(r)
             \/ BuildFilter(r) \/ QueryStore(r) \/ Respond(r))

\* C15: the steps of a search request happen in the order decode/resize,
\* normalization, embedding, filter construction, store query, response; the
\* store is not queried for a request whose decoding, embedding or filter
\* construction has failed; a request never has two responses, a request that
\* is in flight can always go on, and its last step is its one response.
C15_PipelineOrder ==
    \A r \in Slots :
      LET slot == reqs[r]
          steps == StepsBeforeResponse(slot)
      IN  /\ Len(steps) <= Len(Pipeline)
          /\ steps = Prefix(Pipeline, Len(steps))
          /\ slot.responses <= 1
          /\ slot.responses = 1 <=> slot.pc = "responded"
          /\ slot.responses = 1 => slot.log[Len(slot.log)] = "response"
          /\ slot.called = Cardinality({i \in 1..Len(slot.log) : slot.log[i] = "query"})
          /\ slot.fault \in {"ImageDecode", "Embedding", "Filter"} =>
               /\ slot.called = 0
               /\ slot.pc \in {"raised", "responded"}
          /\ slot.fault = "ImageDecode" => steps = Prefix(Pipeline, 1)
          /\ slot.fault = "Embedding" => steps = Prefix(Pipeline, 3)
          /\ slot.fault = "Filter" => steps = Prefix(Pipeline, 4)
          /\ slot.pc = "responded" /\ slot.fault = "none" => steps = Pipeline
          /\ slot.pc \notin {"idle", "responded"} => CanStep(r)

\* A request whose filter construction failed has been answered: five steps,
\* no store query, one response.
C15_Witness ==
    \E r \in Slots :
      /\ reqs[r].pc = "responded"
      /\ reqs[r].fault = "Filter"
      /\ reqs[r].log = <<"decode", "normalize", "embed", "filter", "response">>
      /\ reqs[r].called = 0
      /\ reqs[r].responses = 1
      /\ reqs[r].response.status_code = 500

====
